---------------------------- MODULE Spec2Model ----------------------------
(***************************************************************************)
(* A model of fivem-utility: the server.cfg parser (src/src/config.rs),    *)
(* and the caching artifact-server client (src/src/artifacts.rs).          *)
(*                                                                         *)
(* A string is a sequence of one-character strings, so that the tokenizer, *)
(* the numeric parse and the line splitting work on characters as the code *)
(* does.                                                                   *)
(***************************************************************************)
EXTENDS Integers, Sequences, FiniteSets, TLC

VARIABLES
    \* ---- config.rs: read_config_file / parse_file
    vocab,      \* which vocabulary of lines the files on disk are written in
    files,      \* file name -> Unread, Missing, or Read(the text read from it)
    config,     \* the FivemConfig read_config_file constructs and fills
    stack,      \* the parse_file call frames, innermost last
    ret,        \* the value a parse_file call has just returned to its caller
    result,     \* what read_config_file gave its caller
    \* ---- config.rs: config_line_split on its own
    line,       \* the input line
    parts,      \* the tokens it was split into
    tokenized,  \* whether config_line_split has run
    \* ---- artifacts.rs: ArtifactServer
    body,       \* Option<String>: the cached body
    latest,     \* Option<u16>
    artifacts,  \* Option<Vec<Artifact>>
    fetches,    \* how many times reqwest::blocking::get was called
    calls,      \* how many public calls were made
    lastcall,   \* the last public call: its name, fetches, and return value
    \* ---- main.rs: the resource-usage subcommand
    declared,   \* cfg.resources, the list the loop goes through
    detected,   \* what detect_resources returned: resource name -> path
    resources,  \* the same map as the loop removes from it
    report,     \* the lines printed so far: [tag, name]
    diffpc      \* "off", "declared" (the first loop), "done"

cfgvars == <<vocab, files, config, stack, ret, result>>
tokvars == <<line, parts, tokenized>>
artvars == <<body, latest, artifacts, fetches, calls, lastcall>>
diffvars == <<declared, detected, resources, report, diffpc>>
vars == <<vocab, files, config, stack, ret, result, line, parts, tokenized,
          body, latest, artifacts, fetches, calls, lastcall,
          declared, detected, resources, report, diffpc>>

-----------------------------------------------------------------------------
(* Bounds of the model. *)

\* the longest line given to config_line_split on its own
MaxLineLen == 5
\* the most vocabulary lines in one file
MaxFileLines == 2
\* the most vocabulary lines in all the files one parse reads
MaxTotalLines == 3
\* the deepest nesting of parse_file calls that is followed
MaxDepth == 3
\* the most public calls made on one ArtifactServer
MaxCalls == 3
\* the most matches of the artifact regex in one body
MaxCaptures == 2
\* the most entries of cfg.resources in the resource-usage diff
MaxDeclared == 3

-----------------------------------------------------------------------------
(* Strings. *)

SeqUpTo(S, n) == UNION {[1..k -> S] : k \in 0..n}

RECURSIVE Concat(_)
\* the concatenation of a sequence of strings
Concat(ss) == IF ss = <<>> THEN <<>> ELSE Head(ss) \o Concat(Tail(ss))

RECURSIVE JoinWith(_, _)
\* the strings of ss with sep between neighbours
JoinWith(ss, sep) ==
    IF ss = <<>> THEN <<>>
    ELSE IF Len(ss) = 1 THEN ss[1]
    ELSE ss[1] \o sep \o JoinWith(Tail(ss), sep)

Quoted(s) == <<"\"">> \o s \o <<"\"">>

Range(f) == {f[x] : x \in DOMAIN f}

KwHostname == <<"s", "v", "_", "h", "o", "s", "t", "n", "a", "m", "e">>
KwStart == <<"s", "t", "a", "r", "t">>
KwEnsure == <<"e", "n", "s", "u", "r", "e">>
KwSet == <<"s", "e", "t">>
KwSetr == <<"s", "e", "t", "r">>
KwScriptHook == <<"s", "v", "_", "s", "c", "r", "i", "p", "t", "H", "o", "o", "k", "A", "l", "l", "o", "w", "e", "d">>
KwRcon == <<"r", "c", "o", "n", "_", "p", "a", "s", "s", "w", "o", "r", "d">>
KwLicense == <<"s", "v", "_", "l", "i", "c", "e", "n", "s", "e", "K", "e", "y">>
KwIcon == <<"l", "o", "a", "d", "_", "s", "e", "r", "v", "e", "r", "_", "i", "c", "o", "n">>
KwMaxClients == <<"s", "v", "_", "m", "a", "x", "c", "l", "i", "e", "n", "t", "s">>
KwExec == <<"e", "x", "e", "c">>

-----------------------------------------------------------------------------
(* config_line_split: the tokenizer. *)

\* the loop's locals before the first character
SplitStart == [in_text_block |-> FALSE, part |-> <<>>, parts |-> <<>>]

\* (mutant) an unquoted space pushes the pending part even when it is empty
SplitStepPushEmpty(st, c) ==
    IF c = "\""
    THEN [st EXCEPT !.in_text_block = ~st.in_text_block]
    ELSE IF c = " " /\ ~st.in_text_block
    THEN [st EXCEPT !.parts = Append(st.parts, st.part), !.part = <<>>]
    ELSE [st EXCEPT !.part = Append(st.part, c)]

\* one iteration of `for c in line.chars()`
SplitStep(st, c) ==
    IF c = "\""
    THEN [st EXCEPT !.in_text_block = ~st.in_text_block]
    ELSE IF c = " " /\ ~st.in_text_block
    THEN [st EXCEPT !.parts = IF Len(st.part) # 0
                              THEN Append(st.parts, st.part)
                              ELSE st.parts,
                    !.part = <<>>]
    ELSE [st EXCEPT !.part = Append(st.part, c)]

RECURSIVE SplitLoop(_, _, _)
\* the whole loop, from character i on
SplitLoop(ln, i, st) ==
    IF i > Len(ln) THEN st ELSE SplitLoop(ln, i + 1, SplitStep(st, ln[i]))

\* (mutant) the part pending at the end of the line is forgotten
config_line_split_noflush(ln) == SplitLoop(ln, 1, SplitStart).parts

config_line_split(ln) ==
    LET st == SplitLoop(ln, 1, SplitStart)
    IN  IF Len(st.part) # 0 THEN Append(st.parts, st.part) ELSE st.parts

-----------------------------------------------------------------------------
(* The FivemConfig record and the outcome of one dispatched line. *)

EmptyMap == [k \in {} |-> <<>>]

\* HashMap::insert: the entry for k is added or overwritten
MapInsert(m, k, v) == [x \in (DOMAIN m) \cup {k} |-> IF x = k THEN v ELSE m[x]]

\* the record read_config_file constructs
DefaultConfig ==
    [hostname |-> <<>>, resources |-> <<>>, convars |-> EmptyMap,
     convars_replicated |-> EmptyMap, allow_scripthook |-> TRUE,
     rcon_password |-> <<>>, licensekey |-> <<>>, server_icon |-> <<>>,
     max_clients |-> 0]

MaxClientsError == "Max clients is not a number!"
IndexPanic == "index out of bounds"
OpenPanic == "Failed to open main config file."

Applied(cfg) == [kind |-> "ok", config |-> cfg]
Failed(msg) == [kind |-> "err", msg |-> msg]
Panicked(msg) == [kind |-> "panic", msg |-> msg]
Included(file) == [kind |-> "exec", file |-> file]

-----------------------------------------------------------------------------
(* str::parse::<u16>. *)

U16Max == 65535

Digits == {"0", "1", "2", "3", "4", "5", "6", "7", "8", "9"}

DigitVal(c) ==
    CASE c = "0" -> 0 [] c = "1" -> 1 [] c = "2" -> 2 [] c = "3" -> 3
      [] c = "4" -> 4 [] c = "5" -> 5 [] c = "6" -> 6 [] c = "7" -> 7
      [] c = "8" -> 8 [] c = "9" -> 9

RECURSIVE ParseDigits(_, _, _)
\* the digits of ds from i on, added to acc with a checked multiply and add;
\* -1 for a character that is no digit or a value above u16::MAX
ParseDigits(ds, i, acc) ==
    IF i > Len(ds) THEN acc
    ELSE IF ds[i] \notin Digits THEN -1
    ELSE IF acc * 10 + DigitVal(ds[i]) > U16Max THEN -1
    ELSE ParseDigits(ds, i + 1, acc * 10 + DigitVal(ds[i]))

RECURSIVE WrapDigits(_, _, _)
WrapDigits(ds, i, acc) ==
    IF i > Len(ds) THEN acc
    ELSE IF ds[i] \notin Digits THEN -1
    ELSE WrapDigits(ds, i + 1, (acc * 10 + DigitVal(ds[i])) % (U16Max + 1))

\* (mutant) the value wraps around at 16 bits instead of being refused
ParseU16Wrapping(s) ==
    IF s = <<>> THEN -1
    ELSE LET ds == IF s[1] = "+" THEN Tail(s) ELSE s
         IN  IF ds = <<>> THEN -1 ELSE WrapDigits(ds, 1, 0)

\* parts[1].parse::<u16>(): the value, or -1 for an Err. An empty string and
\* a lone sign are errors, one leading "+" is accepted, "-" is no digit of
\* an unsigned type.
ParseU16(s) ==
    IF s = <<>> THEN -1
    ELSE LET ds == IF s[1] = "+" THEN Tail(s) ELSE s
         IN  IF ds = <<>> THEN -1 ELSE ParseDigits(ds, 1, 0)

-----------------------------------------------------------------------------
(* The match of parse_file on parts[0]; p is parts, 1-based, so that      *)
(* parts[1] of the code is p[2] and a line of one token has no p[2].      *)

\* (mutant) a hostname already set is kept
DoHostnameKeepFirst(cfg, p) ==
    IF Len(p) < 2 THEN Panicked(IndexPanic)
    ELSE IF cfg.hostname # <<>> THEN Applied(cfg)
    ELSE Applied([cfg EXCEPT !.hostname = p[2]])

DoHostname(cfg, p) ==
    IF Len(p) < 2 THEN Panicked(IndexPanic)
    ELSE Applied([cfg EXCEPT !.hostname = p[2]])

\* (mutant) a resource already in the list is not added again
DoStartDedup(cfg, p) ==
    IF Len(p) < 2 THEN Panicked(IndexPanic)
    ELSE IF \E i \in 1..Len(cfg.resources) : cfg.resources[i] = p[2]
    THEN Applied(cfg)
    ELSE Applied([cfg EXCEPT !.resources = Append(cfg.resources, p[2])])

DoStart(cfg, p) ==
    IF Len(p) < 2 THEN Panicked(IndexPanic)
    ELSE Applied([cfg EXCEPT !.resources = Append(cfg.resources, p[2])])

\* (mutant) an existing convar keeps its first value
DoSetKeepFirst(cfg, p) ==
    IF Len(p) < 2 THEN Panicked(IndexPanic)
    ELSE IF p[2] \in DOMAIN cfg.convars THEN Applied(cfg)
    ELSE Applied([cfg EXCEPT !.convars =
            MapInsert(cfg.convars, p[2], IF Len(p) >= 3 THEN p[3] ELSE <<>>)])

DoSet(cfg, p) ==
    IF Len(p) < 2 THEN Panicked(IndexPanic)
    ELSE Applied([cfg EXCEPT !.convars =
            MapInsert(cfg.convars, p[2], IF Len(p) >= 3 THEN p[3] ELSE <<>>)])

DoSetr(cfg, p) ==
    IF Len(p) < 2 THEN Panicked(IndexPanic)
    ELSE Applied([cfg EXCEPT !.convars_replicated =
            MapInsert(cfg.convars_replicated, p[2],
                      IF Len(p) >= 3 THEN p[3] ELSE <<>>)])

DoScriptHook(cfg, p) ==
    IF Len(p) < 2 THEN Panicked(IndexPanic)
    ELSE Applied([cfg EXCEPT !.allow_scripthook = (p[2] = <<"1">>)])

DoRcon(cfg, p) ==
    IF Len(p) < 2 THEN Panicked(IndexPanic)
    ELSE Applied([cfg EXCEPT !.rcon_password = p[2]])

DoLicense(cfg, p) ==
    IF Len(p) < 2 THEN Panicked(IndexPanic)
    ELSE Applied([cfg EXCEPT !.licensekey = p[2]])

DoIcon(cfg, p) ==
    IF Len(p) < 2 THEN Panicked(IndexPanic)
    ELSE Applied([cfg EXCEPT !.server_icon = p[2]])

DoMaxClients(cfg, p) ==
    IF Len(p) < 2 THEN Panicked(IndexPanic)
    ELSE LET parse_res == ParseU16(p[2])
         IN  IF parse_res >= 0
             THEN Applied([cfg EXCEPT !.max_clients = parse_res])
             ELSE Failed(MaxClientsError)

DoExec(cfg, p) ==
    IF Len(p) < 2 THEN Panicked(IndexPanic) ELSE Included(p[2])

\* (mutant) the directive names are matched without regard to case
DispatchAnyCase(cfg, p) ==
    CASE p[1] \in {KwHostname, <<"S", "V", "_", "H", "O", "S", "T", "N", "A", "M", "E">>}
                                  -> DoHostname(cfg, p)
      [] p[1] \in {KwStart, KwEnsure} -> DoStart(cfg, p)
      [] p[1] = KwSet             -> DoSet(cfg, p)
      [] p[1] = KwSetr            -> DoSetr(cfg, p)
      [] p[1] = KwScriptHook      -> DoScriptHook(cfg, p)
      [] p[1] = KwRcon            -> DoRcon(cfg, p)
      [] p[1] = KwLicense         -> DoLicense(cfg, p)
      [] p[1] = KwIcon            -> DoIcon(cfg, p)
      [] p[1] = KwMaxClients      -> DoMaxClients(cfg, p)
      [] p[1] = KwExec            -> DoExec(cfg, p)
      [] OTHER                    -> Applied(cfg)

\* match parts[0].as_str() { ... }
Dispatch(cfg, p) ==
    CASE p[1] = KwHostname        -> DoHostname(cfg, p)
      [] p[1] \in {KwStart, KwEnsure} -> DoStart(cfg, p)
      [] p[1] = KwSet             -> DoSet(cfg, p)
      [] p[1] = KwSetr            -> DoSetr(cfg, p)
      [] p[1] = KwScriptHook      -> DoScriptHook(cfg, p)
      [] p[1] = KwRcon            -> DoRcon(cfg, p)
      [] p[1] = KwLicense         -> DoLicense(cfg, p)
      [] p[1] = KwIcon            -> DoIcon(cfg, p)
      [] p[1] = KwMaxClients      -> DoMaxClients(cfg, p)
      [] p[1] = KwExec            -> DoExec(cfg, p)
      [] OTHER                    -> Applied(cfg)

\* line.starts_with("#")
IsComment(ln) == Len(ln) >= 1 /\ ln[1] = "#"

\* one iteration of `for line in lines`: a comment and a line of no tokens
\* are passed over, any other line goes through the match
LineOutcome(cfg, ln) ==
    IF IsComment(ln) THEN Applied(cfg)
    ELSE LET p == config_line_split(ln)
         IN  IF Len(p) = 0 THEN Applied(cfg) ELSE Dispatch(cfg, p)

RECURSIVE SplitLinesFrom(_, _, _, _)
SplitLinesFrom(text, i, cur, acc) ==
    IF i > Len(text) THEN Append(acc, cur)
    ELSE IF text[i] = "\n" \/ text[i] = "\r"
    THEN SplitLinesFrom(text, i + 1, <<>>, Append(acc, cur))
    ELSE SplitLinesFrom(text, i + 1, Append(cur, text[i]), acc)

\* file_contents.replace("\r", "\n").split("\n")
SplitLines(text) == SplitLinesFrom(text, 1, <<>>, <<>>)

-----------------------------------------------------------------------------
(* The files on disk.  A file is read when parse_file first opens it; what *)
(* is read is any text of at most MaxFileLines lines of the vocabulary,    *)
(* or the file is missing.  A file opened again reads the same text.       *)

RootFile == <<"r">>
FileNames == {RootFile, <<"a">>, <<"b">>}

\* a line of the given words, one space between neighbours
Words(ws) == JoinWith(ws, <<" ">>)

VocabNames ==
    {"include", "scalars", "convars", "skipped", "maxclients", "keywords"}

Vocab(v) ==
    CASE v = "include" ->
           { Words(<<KwHostname, <<"A">>>>),
             Words(<<KwHostname, Quoted(<<"B", " ", "C">>)>>),
             Words(<<KwStart, <<"x">>>>),
             Words(<<KwEnsure, <<"y">>>>),
             Words(<<KwMaxClients, <<"a", "b", "c">>>>),
             Words(<<KwExec, <<"a">>>>),
             Words(<<KwExec, <<"b">>>>) }
      [] v = "scalars" ->
           { Words(<<KwRcon, <<"P">>>>),
             Words(<<KwLicense, <<"L">>>>),
             Words(<<KwIcon, <<"I">>>>),
             Words(<<KwScriptHook, <<"0">>>>),
             Words(<<KwScriptHook, <<"1">>>>),
             Words(<<KwMaxClients, <<"7">>>>),
             Words(<<KwRcon, <<"Q">>>>),
             Words(<<KwExec, <<"a">>>>) }
      [] v = "convars" ->
           { Words(<<KwSet, <<"K">>, <<"V">>>>),
             Words(<<KwSet, <<"K">>>>),
             Words(<<KwSet, <<"J">>, Quoted(<<"V", " ", "W">>)>>),
             Words(<<KwSet, <<"K">>, <<"W">>, <<"Z">>>>),
             Words(<<KwSetr, <<"K">>, <<"R">>>>),
             Words(<<KwSetr, <<"K">>>>),
             Words(<<KwSetr, <<"J">>, <<"R">>>>),
             Words(<<KwExec, <<"a">>>>) }
      [] v = "skipped" ->
           { <<"#">> \o Words(<<KwHostname, <<"A">>>>),
             <<"#", " ">> \o Words(<<KwHostname, <<"A">>>>),
             <<" ", " ">>,
             Quoted(<<>>),
             Words(<<<<"f", "o", "o">>, <<"b", "a", "r">>>>),
             Words(<<<<"S", "V", "_", "H", "O", "S", "T", "N", "A", "M", "E">>, <<"A">>>>),
             Words(<<KwHostname, <<"A">>>>) \o <<"\r">>,
             Words(<<KwExec, <<"a">>>>) }
      [] v = "maxclients" ->
           { Words(<<KwMaxClients, <<"0">>>>),
             Words(<<KwMaxClients, <<"3", "2">>>>),
             Words(<<KwMaxClients, <<"6", "5", "5", "3", "5">>>>),
             Words(<<KwMaxClients, <<"6", "5", "5", "3", "6">>>>),
             Words(<<KwMaxClients, <<"0", "0", "0", "0", "0", "7">>>>),
             Words(<<KwMaxClients, <<"+", "5">>>>),
             Words(<<KwMaxClients, <<"-", "1">>>>),
             Words(<<KwMaxClients, <<"+">>>>),
             Words(<<KwMaxClients, <<"1", "a">>>>),
             Words(<<KwMaxClients, <<"a", "b", "c">>>>),
             Words(<<KwExec, <<"a">>>>) }
      [] v = "keywords" ->
           { KwHostname, KwStart, KwEnsure, KwSet, KwSetr, KwScriptHook,
             KwRcon, KwLicense, KwIcon, KwMaxClients, KwExec,
             Words(<<KwHostname, Quoted(<<>>)>>),
             Words(<<KwHostname, <<"A">>>>),
             Words(<<KwExec, <<"a">>>>) }
      [] v = "cycle" ->
           { Words(<<KwExec, RootFile>>),
             Words(<<KwExec, <<"a">>>>),
             Words(<<KwExec, <<"b">>>>),
             Words(<<KwHostname, <<"A">>>>),
             Words(<<KwMaxClients, <<"a", "b", "c">>>>),
             KwSet }

Unread == [state |-> "unread"]
Missing == [state |-> "missing"]
Read(text) == [state |-> "read", text |-> text]

\* the number of vocabulary lines in a text
LinesIn(text) ==
    IF text = <<>> THEN 0
    ELSE 1 + Cardinality({i \in 1..Len(text) : text[i] = "\n"})

RECURSIVE SumLines(_, _)
SumLines(fs, names) ==
    IF names = {} THEN 0
    ELSE LET n == CHOOSE x \in names : TRUE
         IN  (IF fs[n].state = "read" THEN LinesIn(fs[n].text) ELSE 0)
             + SumLines(fs, names \ {n})

\* the vocabulary lines in the files read so far
LinesRead(fs) == SumLines(fs, FileNames)

Min(a, b) == IF a < b THEN a ELSE b

\* the texts of at most n lines of vocabulary v, the lines joined by LF
Texts(v, n) == {JoinWith(ls, <<"\n">>) : ls \in SeqUpTo(Vocab(v), n)}

\* what File::open and read_to_string can give for a file name
OpenOutcomes(v, fs, name) ==
    IF name \notin FileNames THEN {Missing}
    ELSE IF fs[name] = Unread
    THEN {Missing} \cup
         {Read(t) : t \in Texts(v, Min(MaxFileLines, MaxTotalLines - LinesRead(fs)))}
    ELSE {fs[name]}

NoRet == [kind |-> "none"]
OkRet == [kind |-> "ok"]

Idle == [kind |-> "idle"]
Running == [kind |-> "running"]

\* the frame of a parse_file call that has read its file
Frame(name, text) == [file |-> name, lines |-> SplitLines(text), pos |-> 1]

Top == stack[Len(stack)]
Pop(stk) == SubSeq(stk, 1, Len(stk) - 1)
Advance(stk) == [stk EXCEPT ![Len(stk)].pos = @ + 1]

\* the entry of parse_file(config, name): the file is opened and read, and
\* its lines are split; a file that cannot be opened panics
EnterParseFile(name) ==
    /\ Len(stack) < MaxDepth
    /\ \E o \in OpenOutcomes(vocab, files, name) :
         /\ files' = IF name \in FileNames THEN [files EXCEPT ![name] = o]
                     ELSE files
         /\ IF o = Missing
            THEN /\ result' = Panicked(OpenPanic)
                 /\ stack' = stack
            ELSE /\ result' = Running
                 /\ stack' = Append(stack, Frame(name, o.text))

\* the line the innermost parse_file call is about to take
AtLine ==
    /\ result = Running
    /\ ret = NoRet
    /\ stack # <<>>
    /\ Top.pos <= Len(Top.lines)

CurLine == Top.lines[Top.pos]
CurOutcome == LineOutcome(config, CurLine)

-----------------------------------------------------------------------------
(* read_config_file and parse_file, step by step. *)

InitConfig ==
    /\ files = [n \in FileNames |-> Unread]
    /\ config = DefaultConfig
    /\ stack = <<>>
    /\ ret = NoRet
    /\ result = Idle

\* read_config_file calls parse_file(&mut config, file_name)
ReadConfigFile ==
    /\ result = Idle
    /\ EnterParseFile(RootFile)
    /\ UNCHANGED <<vocab, config, ret, line, parts, tokenized>>
    /\ UNCHANGED artvars
    /\ UNCHANGED diffvars

\* one iteration of the loop over the lines, for a line that is no exec:
\* the line is passed over or applied, or parse_file returns the error, or
\* the index parts[1] panics
ParseLine ==
    /\ AtLine
    /\ CurOutcome.kind # "exec"
    /\ CASE CurOutcome.kind = "ok" ->
              /\ config' = CurOutcome.config
              /\ stack' = Advance(stack)
              /\ UNCHANGED <<ret, result>>
         [] CurOutcome.kind = "err" ->
              /\ ret' = Failed(CurOutcome.msg)
              /\ stack' = Pop(stack)
              /\ UNCHANGED <<config, result>>
         [] CurOutcome.kind = "panic" ->
              /\ result' = Panicked(CurOutcome.msg)
              /\ UNCHANGED <<config, stack, ret>>
    /\ UNCHANGED <<vocab, files, line, parts, tokenized>>
    /\ UNCHANGED artvars
    /\ UNCHANGED diffvars

\* an exec line: parse_file calls itself on parts[1]
ExecLine ==
    /\ AtLine
    /\ CurOutcome.kind = "exec"
    /\ EnterParseFile(CurOutcome.file)
    /\ UNCHANGED <<vocab, config, ret, line, parts, tokenized>>
    /\ UNCHANGED artvars
    /\ UNCHANGED diffvars

\* the loop is through: parse_file returns Ok(())
FileEnd ==
    /\ result = Running
    /\ ret = NoRet
    /\ stack # <<>>
    /\ Top.pos > Len(Top.lines)
    /\ ret' = OkRet
    /\ stack' = Pop(stack)
    /\ UNCHANGED <<vocab, files, config, result, line, parts, tokenized>>
    /\ UNCHANGED artvars
    /\ UNCHANGED diffvars

\* (mutant) the result of the nested parse_file is dropped
ExecFailedNever(r) == FALSE

\* result.is_err() of the nested call
ExecFailed(r) == r.kind = "err"

\* the nested parse_file has returned to the exec line: its error is
\* returned on, otherwise the loop goes on with the next line
ExecReturn ==
    /\ result = Running
    /\ ret # NoRet
    /\ stack # <<>>
    /\ IF ExecFailed(ret)
       THEN /\ stack' = Pop(stack)
            /\ ret' = Failed(ret.msg)
       ELSE /\ stack' = Advance(stack)
            /\ ret' = NoRet
    /\ UNCHANGED <<vocab, files, config, result, line, parts, tokenized>>
    /\ UNCHANGED artvars
    /\ UNCHANGED diffvars

\* the outermost parse_file has returned to read_config_file: `?` gives the
\* error to the caller, otherwise Ok(config)
Finish ==
    /\ result = Running
    /\ ret # NoRet
    /\ stack = <<>>
    /\ result' = IF ret.kind = "err" THEN Failed(ret.msg) ELSE Applied(config)
    /\ ret' = NoRet
    /\ UNCHANGED <<vocab, files, config, stack, line, parts, tokenized>>
    /\ UNCHANGED artvars
    /\ UNCHANGED diffvars

Next ==
    \/ ReadConfigFile
    \/ ParseLine
    \/ ExecLine
    \/ FileEnd
    \/ ExecReturn
    \/ Finish

-----------------------------------------------------------------------------
(* config_line_split applied to a line on its own. *)

LineChars == {"a", "b", " ", "\"", "\t"}

InitLine ==
    /\ parts = <<>>
    /\ tokenized = FALSE

Tokenize ==
    /\ ~tokenized
    /\ parts' = config_line_split(line)
    /\ tokenized' = TRUE
    /\ UNCHANGED line
    /\ UNCHANGED cfgvars
    /\ UNCHANGED artvars
    /\ UNCHANGED diffvars

NextLine == Tokenize

-----------------------------------------------------------------------------
(* artifacts.rs: ArtifactServer.  A body is what the two regexes find in   *)
(* it: the (number, hash) matches of the artifact regex in order, and the  *)
(* numbers of the RECOMMENDED regex in order.  A number is the value of    *)
(* the digits matched, which may be above u16::MAX.                        *)

None == [some |-> FALSE]
Some(v) == [some |-> TRUE, val |-> v]

Captures ==
    { [num |-> 1, hash |-> "x"], [num |-> 1, hash |-> "y"],
      [num |-> 2, hash |-> "x"], [num |-> U16Max + 1, hash |-> "x"] }

Recommended == {2, U16Max + 1}

Bodies ==
    [arts : SeqUpTo(Captures, MaxCaptures), rec : SeqUpTo(Recommended, 1)]

\* what reqwest::blocking::get(..).text() can give: a failure or a body
NetOutcomes == {None} \cup {Some(b) : b \in Bodies}

\* the numbers get_artifact is asked for
AskedNums == {1, 2, 3}

Artifact(c) == [url |-> <<c.num, c.hash>>, num |-> c.num, hash |-> c.hash]

Returned(srv, fetched, failed, val) ==
    [srv |-> srv, fetched |-> fetched, failed |-> failed, panic |-> FALSE,
     val |-> val]
Unwound(srv, fetched) ==
    [srv |-> srv, fetched |-> fetched, failed |-> FALSE, panic |-> TRUE]

\* get_body: one fetch; the body is kept when it succeeds
get_body(srv, net) == IF net.some THEN [srv EXCEPT !.body = net] ELSE srv

RECURSIVE CollectVersions(_, _, _, _)
\* the loop over captures_iter: Some(versions), or None when a number does
\* not fit u16 and parse::<u16>().unwrap() panics
CollectVersions(caps, i, versions, nums_already) ==
    IF i > Len(caps) THEN Some(versions)
    ELSE IF caps[i].num > U16Max THEN None
    ELSE IF caps[i].num \in nums_already
    THEN CollectVersions(caps, i + 1, versions, nums_already)
    ELSE CollectVersions(caps, i + 1, Append(versions, Artifact(caps[i])),
                         nums_already \cup {caps[i].num})

get_artifacts(srv, net) ==
    IF srv.artifacts.some THEN Returned(srv, 0, FALSE, srv.artifacts.val)
    ELSE LET s1 == IF srv.body = None THEN get_body(srv, net) ELSE srv
             f == IF srv.body = None THEN 1 ELSE 0
         IN  IF s1.body.some
             THEN LET vs == CollectVersions(s1.body.val.arts, 1, <<>>, {})
                  IN  IF vs = None THEN Unwound(s1, f)
                      ELSE Returned([s1 EXCEPT !.artifacts = vs], f, FALSE, vs.val)
             ELSE Returned(s1, f, f = 1, <<>>)

\* (mutant) the body is fetched whenever the latest number is not cached
get_latest_version_num_refetch(srv, net) ==
    IF srv.latest.some THEN Returned(srv, 0, FALSE, srv.latest.val)
    ELSE LET s1 == get_body(srv, net)
             f == 1
         IN  IF s1.body.some /\ s1.body.val.rec # <<>>
             THEN LET num == s1.body.val.rec[1]
                  IN  IF num > U16Max THEN Unwound(s1, f)
                      ELSE Returned([s1 EXCEPT !.latest = Some(num)], f, FALSE, num)
             ELSE Returned(s1, f, ~s1.body.some, 0)

get_latest_version_num(srv, net) ==
    IF srv.latest.some THEN Returned(srv, 0, FALSE, srv.latest.val)
    ELSE LET s1 == IF srv.body = None THEN get_body(srv, net) ELSE srv
             f == IF srv.body = None THEN 1 ELSE 0
         IN  IF s1.body.some /\ s1.body.val.rec # <<>>
             THEN LET num == s1.body.val.rec[1]
                  IN  IF num > U16Max THEN Unwound(s1, f)
                      ELSE Returned([s1 EXCEPT !.latest = Some(num)], f, FALSE, num)
             ELSE Returned(s1, f, f = 1 /\ ~s1.body.some, 0)

\* the linear search of get_artifact
FindArtifact(arts, num) ==
    IF \E i \in 1..Len(arts) : arts[i].num = num
    THEN Some(arts[CHOOSE i \in 1..Len(arts) :
                     /\ arts[i].num = num
                     /\ \A j \in 1..(i - 1) : arts[j].num # num])
    ELSE None

get_artifact(srv, net, num) ==
    LET r == IF srv.artifacts = None THEN get_artifacts(srv, net)
             ELSE Returned(srv, 0, FALSE, <<>>)
    IN  IF r.panic THEN r
        ELSE Returned(r.srv, r.fetched, r.failed,
                      FindArtifact(IF r.srv.artifacts.some
                                   THEN r.srv.artifacts.val ELSE <<>>, num))

Server == [body |-> body, latest |-> latest, artifacts |-> artifacts]

InitServer ==
    /\ body = None
    /\ latest = None
    /\ artifacts = None
    /\ fetches = 0
    /\ calls = 0
    /\ lastcall = [op |-> "new", fetched |-> 0, failed |-> FALSE, panic |-> FALSE]

\* a public call returns (or unwinds) with outcome r
Called(op, r) ==
    /\ body' = r.srv.body
    /\ latest' = r.srv.latest
    /\ artifacts' = r.srv.artifacts
    /\ fetches' = fetches + r.fetched
    /\ calls' = calls + 1
    /\ lastcall' = [op |-> op, fetched |-> r.fetched, failed |-> r.failed,
                    panic |-> r.panic,
                    val |-> IF r.panic THEN "panic" ELSE r.val]
    /\ UNCHANGED cfgvars
    /\ UNCHANGED tokvars
    /\ UNCHANGED diffvars

CanCall == calls < MaxCalls /\ ~lastcall.panic

GetArtifacts ==
    /\ CanCall
    /\ \E net \in NetOutcomes : Called("get_artifacts", get_artifacts(Server, net))

GetLatestVersionNum ==
    /\ CanCall
    /\ \E net \in NetOutcomes :
         Called("get_latest_version_num", get_latest_version_num(Server, net))

GetArtifact ==
    /\ CanCall
    /\ \E net \in NetOutcomes, num \in AskedNums :
         Called("get_artifact", get_artifact(Server, net, num))

NextServer ==
    \/ GetArtifacts
    \/ GetLatestVersionNum
    \/ GetArtifact

-----------------------------------------------------------------------------
(* main.rs: the resource-usage subcommand, from the point where the config *)
(* was parsed and the resources directory was scanned.                     *)

ResourceNames == { <<"x">>, <<"y">>, <<"z">> }

\* the path detect_resources gives a resource
PathOf(name) == <<"r", "e", "s", "/">> \o name

\* the maps detect_resources can return
Detections == {[n \in S |-> PathOf(n)] : S \in SUBSET ResourceNames}

\* HashMap::remove: the map without the key
MapRemove(m, k) == [x \in (DOMAIN m) \ {k} |-> m[x]]

\* one iteration of `for res in cfg.resources`: resources.remove(&res), and
\* the line printed for what it gave
Classify(m, res) ==
    IF res \in DOMAIN m
    THEN [entry |-> [tag |-> "FOUND", name |-> res, path |-> m[res]],
          left |-> MapRemove(m, res)]
    ELSE [entry |-> [tag |-> "MISSING", name |-> res], left |-> m]

\* the orders in which the keys of a HashMap can be iterated
KeyOrders(m) ==
    {o \in [1..Cardinality(DOMAIN m) -> DOMAIN m] :
        \A i, j \in DOMAIN o : i # j => o[i] # o[j]}

InitDiffOff ==
    /\ declared = <<>>
    /\ detected = EmptyMap
    /\ resources = EmptyMap
    /\ report = <<>>
    /\ diffpc = "off"

\* cfg was read and detect_resources has returned
InitDiff ==
    /\ declared \in SeqUpTo(ResourceNames, MaxDeclared)
    /\ detected \in Detections
    /\ resources = detected
    /\ report = <<>>
    /\ diffpc = "declared"

\* the first loop, one declared resource
ClassifyNext ==
    /\ diffpc = "declared"
    /\ Len(report) < Len(declared)
    /\ LET c == Classify(resources, declared[Len(report) + 1])
       IN  /\ report' = Append(report, c.entry)
           /\ resources' = c.left
    /\ UNCHANGED <<declared, detected, diffpc>>
    /\ UNCHANGED cfgvars
    /\ UNCHANGED tokvars
    /\ UNCHANGED artvars

\* the second loop: every key left in the map is printed as EXTRA
ReportExtras ==
    /\ diffpc = "declared"
    /\ Len(report) = Len(declared)
    /\ \E o \in KeyOrders(resources) :
         report' = report \o [i \in DOMAIN o |->
                        [tag |-> "EXTRA", name |-> o[i], path |-> resources[o[i]]]]
    /\ diffpc' = "done"
    /\ UNCHANGED <<declared, detected, resources>>
    /\ UNCHANGED cfgvars
    /\ UNCHANGED tokvars
    /\ UNCHANGED artvars

NextDiff ==
    \/ ClassifyNext
    \/ ReportExtras

-----------------------------------------------------------------------------
(* The specifications. *)

\* the parser, over every vocabulary
Init ==
    /\ vocab \in VocabNames
    /\ InitConfig
    /\ line = <<>>
    /\ InitLine
    /\ InitServer
    /\ InitDiffOff

Spec == Init /\ [][Next]_vars

\* the tokenizer, over every line of at most MaxLineLen characters
InitSplit ==
    /\ vocab = "include"
    /\ InitConfig
    /\ line \in SeqUpTo(LineChars, MaxLineLen)
    /\ InitLine
    /\ InitServer
    /\ InitDiffOff

SpecSplit == InitSplit /\ [][NextLine]_vars

\* one ArtifactServer, over every sequence of at most MaxCalls calls
InitArt ==
    /\ vocab = "include"
    /\ InitConfig
    /\ line = <<>>
    /\ InitLine
    /\ InitServer
    /\ InitDiffOff

SpecArt == InitArt /\ [][NextServer]_vars

\* the resource-usage diff, over every list of at most MaxDeclared declared
\* resources and every scanned map
InitDiffRun ==
    /\ vocab = "include"
    /\ InitConfig
    /\ line = <<>>
    /\ InitLine
    /\ InitServer
    /\ InitDiff

SpecDiff == InitDiffRun /\ [][NextDiff]_vars

\* the parser over files whose exec lines can name any file, the root file
\* and the including file too
InitCycle ==
    /\ vocab = "cycle"
    /\ InitConfig
    /\ line = <<>>
    /\ InitLine
    /\ InitServer
    /\ InitDiffOff

SpecCycle == InitCycle /\ [][Next]_vars

-----------------------------------------------------------------------------
(* What the properties below speak of.                                     *)

Keywords ==
    {KwHostname, KwStart, KwEnsure, KwSet, KwSetr, KwScriptHook, KwRcon,
     KwLicense, KwIcon, KwMaxClients, KwExec}

LF == <<"\n">>

\* the tokens of a line that is no comment, <<>> for a comment
TokensOf(ln) == IF IsComment(ln) THEN <<>> ELSE config_line_split(ln)

\* the line about to be taken is a directive keyword and nothing else
KeywordOnlyNext ==
    /\ AtLine
    /\ Len(TokensOf(CurLine)) = 1
    /\ TokensOf(CurLine)[1] \in Keywords

\* the line about to be taken is passed over untouched
SkippedNext ==
    /\ stack' = Advance(stack)
    /\ config' = config
    /\ files' = files
    /\ ret' = NoRet
    /\ result' = Running

\* C1: a line that is only the keyword of a directive (also when its
\* argument is the empty quoted string) is passed over: the record is
\* unchanged, nothing fails, and the loop goes on with the next line.
C1_KeywordOnlySkipped == [][KeywordOnlyNext => SkippedNext]_vars

\* ---------------------------------------------------------------- C2

IsNumeral(s) == s # <<>> /\ \A i \in 1..Len(s) : s[i] \in Digits

RECURSIVE NumeralValue(_)
\* the value of a string of digits, from its last digit back
NumeralValue(s) ==
    IF s = <<>> THEN 0
    ELSE DigitVal(s[Len(s)]) + 10 * NumeralValue(SubSeq(s, 1, Len(s) - 1))

\* a decimal numeral of the unsigned 16-bit range
IsU16Numeral(s) == IsNumeral(s) /\ NumeralValue(s) <= U16Max

\* the same, with one "+" allowed in front
Unsigned(s) == IF s # <<>> /\ s[1] = "+" THEN Tail(s) ELSE s
IsSignedU16Numeral(s) == IsU16Numeral(Unsigned(s))

MaxClientsNext ==
    /\ AtLine
    /\ Len(TokensOf(CurLine)) >= 2
    /\ TokensOf(CurLine)[1] = KwMaxClients

CurArg == TokensOf(CurLine)[2]

MaxClientsSet(n) ==
    /\ config' = [config EXCEPT !.max_clients = n]
    /\ stack' = Advance(stack)
    /\ ret' = NoRet
    /\ result' = Running

MaxClientsRefused ==
    /\ ret' = Failed(MaxClientsError)
    /\ config' = config
    /\ result' = Running

\* an error value, once returned, reaches the caller of read_config_file,
\* and it is the only error value there is
ErrorReturned ==
    /\ [][ret.kind = "err" =>
            (ret' = ret \/ result' = Failed(MaxClientsError))]_vars
    /\ [][(ret.kind # "err" /\ ret'.kind = "err") => MaxClientsNext]_vars
    /\ [](result.kind = "err" => result = Failed(MaxClientsError))

\* C2 as stated: sv_maxclients X sets max_clients to X when X is a decimal
\* numeral of 0..65535, and in every other case read_config_file returns
\* "Max clients is not a number!"; nothing else makes an error value.
C2_MaxClientsAsStated ==
    /\ [][MaxClientsNext =>
            IF IsU16Numeral(CurArg)
            THEN MaxClientsSet(NumeralValue(CurArg))
            ELSE MaxClientsRefused]_vars
    /\ ErrorReturned

\* C2 amended: the numeral may carry one leading "+".
C2_MaxClients ==
    /\ [][MaxClientsNext =>
            IF IsSignedU16Numeral(CurArg)
            THEN MaxClientsSet(NumeralValue(Unsigned(CurArg)))
            ELSE MaxClientsRefused]_vars
    /\ ErrorReturned

\* sv_maxclients +5 was applied and a later sv_maxclients was refused
C2_Witness ==
    /\ result = Failed(MaxClientsError)
    /\ config.max_clients = 5

\* ---------------------------------------------------------------- C3

\* C3: after the first hard failure no line is taken any more, in the
\* failing file or in a file that includes it; no file is opened and the
\* record is not touched; every enclosing parse_file returns the same
\* error, and read_config_file returns it, without a record.
C3_FirstFailureAborts ==
    /\ [][ret.kind = "err" =>
            /\ ~AtLine'
            /\ config' = config
            /\ files' = files
            /\ IF stack = <<>>
               THEN result' = Failed(ret.msg)
               ELSE /\ stack' = Pop(stack)
                    /\ ret' = ret
                    /\ result' = result]_vars
    /\ [](result.kind = "err" => DOMAIN result = {"kind", "msg"})

\* an error is on its way out through a file that has lines left
C3_Witness ==
    /\ ret.kind = "err"
    /\ Len(stack) >= 1
    /\ Top.pos < Len(Top.lines)

\* ---------------------------------------------------------------- C4

IsExecLine(ln) == Len(TokensOf(ln)) >= 2 /\ TokensOf(ln)[1] = KwExec

RECURSIVE Expand(_, _)
\* the lines of a file in depth-first order: each exec line replaced by
\* the expanded lines of the file it names (a file that was read)
Expand(fs, name) ==
    LET ls == SplitLines(fs[name].text)
        RECURSIVE From(_)
        From(i) ==
            IF i > Len(ls) THEN <<>>
            ELSE (IF IsExecLine(ls[i])
                  THEN Expand(fs, TokensOf(ls[i])[2])
                  ELSE <<ls[i]>>) \o From(i + 1)
    IN  From(1)

Expanded == Expand(files, RootFile)

\* the positions of the expanded lines that are directive kw with an argument
Mentions(flat, kw) ==
    {i \in 1..Len(flat) : Len(TokensOf(flat[i])) >= 2 /\ TokensOf(flat[i])[1] = kw}

Last(S) == CHOOSE i \in S : \A j \in S : j <= i

\* the argument of the last directive kw of the expanded lines, or none
LastArg(flat, kw) ==
    IF Mentions(flat, kw) = {} THEN None
    ELSE Some(TokensOf(flat[Last(Mentions(flat, kw))])[2])

\* a scalar of the record against the last directive for it
LastWins(flat, kw, got, default, Value(_)) ==
    got = IF LastArg(flat, kw).some THEN Value(LastArg(flat, kw).val) ELSE default

Same(x) == x
IsOne(x) == x = <<"1">>
NumberOf(x) == NumeralValue(Unsigned(x))

\* C4: the directives are applied to one record in depth-first order, an
\* exec'd file wholly before the line after its exec; so after a successful
\* parse every last-value-wins scalar is the value of the last directive
\* for it in the expanded order of the lines, whichever file it stood in.
C4_DepthFirstLastWins ==
    result.kind = "ok" =>
        /\ LastWins(Expanded, KwHostname, result.config.hostname, <<>>, Same)
        /\ LastWins(Expanded, KwRcon, result.config.rcon_password, <<>>, Same)
        /\ LastWins(Expanded, KwLicense, result.config.licensekey, <<>>, Same)
        /\ LastWins(Expanded, KwIcon, result.config.server_icon, <<>>, Same)
        /\ LastWins(Expanded, KwScriptHook, result.config.allow_scripthook, TRUE, IsOne)
        /\ LastWins(Expanded, KwMaxClients, result.config.max_clients, 0, NumberOf)

\* a parse succeeded in which an included file set the hostname and the
\* line after the exec set it again, to another value
C4_Witness ==
    /\ result.kind = "ok"
    /\ files[<<"a">>].state = "read"
    /\ \E i \in Mentions(Expanded, KwHostname), j \in Mentions(Expanded, KwHostname) :
         /\ i < j
         /\ TokensOf(Expanded[i])[2] # TokensOf(Expanded[j])[2]
         /\ Expanded[i] \in Range(SplitLines(files[<<"a">>].text))
         /\ Expanded[j] \in Range(SplitLines(files[RootFile].text))

\* ---------------------------------------------------------------- C5

SetNext(kw) ==
    /\ AtLine
    /\ Len(TokensOf(CurLine)) >= 2
    /\ TokensOf(CurLine)[1] = kw

CurValue == IF Len(TokensOf(CurLine)) >= 3 THEN TokensOf(CurLine)[3] ELSE <<>>

\* map m1 is map m0 with exactly the entry for k put to v
PutExactly(m0, m1, k, v) ==
    /\ DOMAIN m1 = (DOMAIN m0) \cup {k}
    /\ m1[k] = v
    /\ \A x \in (DOMAIN m0) \ {k} : m1[x] = m0[x]

\* C5: set K [V] leaves convars with one entry for K, of value V or of the
\* empty string when V is absent, in place of any earlier one, the other
\* keys as they were and convars_replicated untouched; setr likewise on
\* convars_replicated, with convars untouched.
C5_SetPutsOneEntry ==
    /\ [][SetNext(KwSet) =>
            /\ PutExactly(config.convars, config'.convars, CurArg, CurValue)
            /\ config'.convars_replicated = config.convars_replicated]_vars
    /\ [][SetNext(KwSetr) =>
            /\ PutExactly(config.convars_replicated, config'.convars_replicated,
                          CurArg, CurValue)
            /\ config'.convars = config.convars]_vars

\* K was set to V and then to W: one entry, K -> W, and no replicated convar
C5_Witness ==
    /\ result.kind = "ok"
    /\ files[RootFile].state = "read"
    /\ files[RootFile].text =
         JoinWith(<<Words(<<KwSet, <<"K">>, <<"V">>>>),
                    Words(<<KwSet, <<"K">>, <<"W">>, <<"Z">>>>)>>, LF)
    /\ result.config.convars = MapInsert(EmptyMap, <<"K">>, <<"W">>)
    /\ result.config.convars_replicated = EmptyMap

\* ---------------------------------------------------------------- C6

IsPrefix(s, t) == Len(s) <= Len(t) /\ SubSeq(t, 1, Len(s)) = s

RECURSIVE StartArgs(_)
\* the arguments of the start and ensure lines among the given lines
StartArgs(flat) ==
    IF flat = <<>> THEN <<>>
    ELSE LET p == TokensOf(Head(flat))
         IN  (IF Len(p) >= 2 /\ p[1] \in {KwStart, KwEnsure} THEN <<p[2]>> ELSE <<>>)
             \o StartArgs(Tail(flat))

StartNext ==
    /\ AtLine
    /\ Len(TokensOf(CurLine)) >= 2
    /\ TokensOf(CurLine)[1] \in {KwStart, KwEnsure}

\* C6: resources only grows at its end: start X and ensure X append X,
\* nothing removes, reorders or deduplicates; after a successful parse it
\* is the sequence of the start and ensure arguments in depth-first order.
C6_ResourcesAppendOnly ==
    /\ [][IsPrefix(config.resources, config'.resources)]_vars
    /\ [][StartNext => config'.resources = Append(config.resources, CurArg)]_vars
    /\ [](result.kind = "ok" => result.config.resources = StartArgs(Expanded))

\* start x twice gave [x, x]
C6_Witness ==
    /\ result.kind = "ok"
    /\ result.config.resources = << <<"x">>, <<"x">> >>

\* ---------------------------------------------------------------- C7

\* a comment, a line of no tokens, or a line whose first token is no directive
Ignorable(ln) ==
    \/ IsComment(ln)
    \/ config_line_split(ln) = <<>>
    \/ config_line_split(ln)[1] \notin Keywords

\* every line of every file read is ignorable
OnlyIgnorable ==
    \A n \in FileNames :
        files[n].state = "read" =>
            \A i \in 1..Len(SplitLines(files[n].text)) :
                Ignorable(SplitLines(files[n].text)[i])

\* C7: a comment line, a line of no tokens and a line whose first token is
\* no directive (matched exactly, case and all) leave the record as it is
\* and raise no error; a file of such lines only gives the default record.
C7_IgnoredLines ==
    /\ [][(AtLine /\ Ignorable(CurLine)) => SkippedNext]_vars
    /\ []((OnlyIgnorable /\ result.kind \notin {"idle", "running"} /\ files[RootFile].state = "read")
            => result = Applied(DefaultConfig))

\* a file of a comment and an upper-case SV_HOSTNAME line gave the defaults
C7_Witness ==
    /\ result = Applied(DefaultConfig)
    /\ files[RootFile].state = "read"
    /\ files[RootFile].text =
         JoinWith(<< <<"#">> \o Words(<<KwHostname, <<"A">>>>),
                     Words(<<<<"S", "V", "_", "H", "O", "S", "T", "N", "A", "M", "E">>, <<"A">>>>) >>, LF)

\* ---------------------------------------------------------------- C8

QuoteCount(ln) == Cardinality({i \in 1..Len(ln) : ln[i] = "\""})
Balanced(ln) == QuoteCount(ln) % 2 = 0

\* the tokens joined again, one space between neighbours
Rejoined(ps) == JoinWith(ps, <<" ">>)

HasSpace(t) == \E i \in 1..Len(t) : t[i] = " "

\* C8 as stated: for a line of balanced quotes, the tokens joined by single
\* spaces and split again are the same tokens.
C8_RoundTripAsStated ==
    (tokenized /\ Balanced(line)) => config_line_split(Rejoined(parts)) = parts

\* C8 amended: so it is when no token holds a space; when a token holds
\* one (it came from a quoted span) the tokens that come back differ.
C8_RoundTrip ==
    (tokenized /\ Balanced(line)) =>
        /\ (\A i \in 1..Len(parts) : ~HasSpace(parts[i]))
             => config_line_split(Rejoined(parts)) = parts
        /\ (\E i \in 1..Len(parts) : HasSpace(parts[i]))
             => config_line_split(Rejoined(parts)) # parts

\* a line with a quoted span was split into two tokens without a space
C8_Witness ==
    /\ tokenized
    /\ Balanced(line)
    /\ QuoteCount(line) = 2
    /\ Len(parts) = 2
    /\ \A i \in 1..Len(parts) : ~HasSpace(parts[i])

\* ---------------------------------------------------------------- C10

NoEmptyToken == \A i \in 1..Len(parts) : parts[i] # <<>>

OnlyOf(ln, chars) == \A i \in 1..Len(ln) : ln[i] \in chars

\* the characters of ln that are not in chars, in order
Without(ln, chars) == SelectSeq(ln, LAMBDA c : c \notin chars)

\* the places of ln where a run of characters other than the space begins
RunStarts(ln) ==
    {i \in 1..Len(ln) : ln[i] # " " /\ (i = 1 \/ ln[i - 1] = " ")}

\* C10 as stated: no token is empty, and a line that is empty or all
\* spaces and tabs gives no token.
C10_WhitespaceAsStated ==
    tokenized =>
        /\ NoEmptyToken
        /\ OnlyOf(line, {" ", "\t"}) => parts = <<>>

\* C10 amended: no token is empty; a line that is empty or all spaces gives
\* no token; in a line without quotes the tokens are its runs of
\* characters other than the space, a tab being a character like any other.
C10_Spaces ==
    tokenized =>
        /\ NoEmptyToken
        /\ OnlyOf(line, {" "}) => parts = <<>>
        /\ QuoteCount(line) = 0 =>
             /\ Len(parts) = Cardinality(RunStarts(line))
             /\ Concat(parts) = Without(line, {" "})
             /\ \A i \in 1..Len(parts) : ~HasSpace(parts[i])

\* two tokens with two spaces between them
C10_Witness ==
    /\ tokenized
    /\ line = <<"a", " ", " ", "b">>
    /\ parts = << <<"a">>, <<"b">> >>

\* ---------------------------------------------------------------- C9

\* C9 as stated: one ArtifactServer fetches at most once, whatever is
\* called and also when the fetch fails.
C9_OneFetchAsStated == fetches <= 1

\* C9 amended: once a fetch has succeeded nothing is fetched again; a call
\* fetches at most once; a call whose fetch fails returns the empty list,
\* None or 0 without raising, and leaves nothing cached, so that the next
\* call fetches again.
C9_FetchCached ==
    /\ [][body # None => fetches' = fetches]_vars
    /\ [][fetches' <= fetches + 1]_vars
    /\ [](lastcall.fetched <= 1)
    /\ [](lastcall.failed =>
            /\ ~lastcall.panic
            /\ lastcall.val = CASE lastcall.op = "get_artifacts" -> <<>>
                                [] lastcall.op = "get_latest_version_num" -> 0
                                [] lastcall.op = "get_artifact" -> None
            /\ body = None /\ artifacts = None /\ latest = None)
    /\ [](body = None => fetches = calls)

\* a failed fetch, then a fetch that succeeded, then a call served from the cache
C9_Witness ==
    /\ calls = 3
    /\ fetches = 2
    /\ body # None
    /\ lastcall.fetched = 0
    /\ ~lastcall.panic

\* ---------------------------------------------------------------- C11

\* the lines printed by the first loop
Classified == SubSeq(report, 1, Min(Len(report), Len(declared)))

\* the names printed as EXTRA
Extras ==
    {report[i].name : i \in {j \in 1..Len(report) : report[j].tag = "EXTRA"}}

\* C11: every entry of the declared list, repeated ones too, is FOUND when
\* its name is a key of the scanned map and MISSING when it is not, and the
\* names printed EXTRA are the scanned names that no declared entry has.
C11_DiffByName ==
    /\ \A i \in 1..Len(Classified) :
         /\ Classified[i].name = declared[i]
         /\ Classified[i].tag =
              IF declared[i] \in DOMAIN detected THEN "FOUND" ELSE "MISSING"
    /\ diffpc = "done" =>
         Extras = (DOMAIN detected) \ Range(declared)

\* ---------------------------------------------------------------- C12

\* the files the exec lines of a text name
ExecTargets(text) ==
    {LineOutcome(DefaultConfig, l).file :
        l \in {m \in Range(SplitLines(text)) :
                 LineOutcome(DefaultConfig, m).kind = "exec"}}

\* the files a file execs, as far as it was read
Edges(f) ==
    IF f \in FileNames /\ files[f].state = "read"
    THEN ExecTargets(files[f].text)
    ELSE {}

RECURSIVE Closure(_)
Closure(S) ==
    LET T == S \cup UNION {Edges(f) : f \in S}
    IN  IF T = S THEN S ELSE Closure(T)

\* the files reachable through exec from the root file
Reachable == Closure({RootFile})

\* every reachable file was opened and read
ChainReadable ==
    \A f \in Reachable : f \in FileNames /\ files[f].state = "read"

\* no reachable file reaches itself
ChainAcyclic == \A f \in Reachable : f \notin Closure(Edges(f))

\* a file is being parsed inside its own parse: the exec lines reached form
\* a cycle
StackRepeats ==
    \E i, j \in DOMAIN stack : i < j /\ stack[i].file = stack[j].file

\* read_config_file has given its caller a record or an error value
GaveResult == result.kind \in {"ok", "err"}

\* the thread has panicked: the caller gets neither a record nor an error
Aborted == result.kind = "panic"

\* an exec line is waiting at the deepest nesting the model follows
Stalled == AtLine /\ CurOutcome.kind = "exec" /\ Len(stack) >= MaxDepth

\* once the exec lines reached form a cycle, the parse stays inside the
\* cycle and gives the caller nothing
CycleStep ==
    StackRepeats => (StackRepeats' /\ result' = Running /\ ~GaveResult')

\* an acyclic chain of readable files does not end without a result
ChainEnds == (ChainReadable /\ ChainAcyclic) => (~Aborted /\ ~Stalled)

\* C12: when the exec lines reached form a cycle the parse recurses on and
\* never gives the caller a record or an error value; when the files
\* reachable through exec are an acyclic chain of readable files,
\* read_config_file ends with a record or an error and in no other way.
C12_CycleOrTerminates == [][CycleStep]_vars /\ []ChainEnds

\* the first half of C12 on its own
C12_CycleNeverReturns == [][CycleStep]_vars

\* a file that execs itself was entered a second time
C12_CycleReached == StackRepeats /\ result = Running

\* an acyclic chain of two readable files ended with a record
C12_ChainEnded ==
    /\ ChainReadable /\ ChainAcyclic
    /\ Cardinality(Reachable) = 2
    /\ result.kind = "ok"

=============================================================================
